---- MODULE Spec2Model ----
(***************************************************************************)
(* CRO scoring and competitor comparison (backend/routes/cro.py,           *)
(* backend/services/performance_analyzer.py).                              *)
(*                                                                         *)
(* Text fields are modelled by their length (len(title)), a missing text   *)
(* (Python None) by NoText.  Times are integer milliseconds and sizes      *)
(* integer kilobytes, so x / 1000 < k is x < 1000 * k and round(x, 2) is   *)
(* x; a missing page size (Python None) is NoSize.  Recommendation and     *)
(* insight strings are modelled as records [tag, n] / [tag, n, urls]       *)
(* holding the values the f-string interpolates.                           *)
(***************************************************************************)
EXTENDS Integers, Sequences, FiniteSets, TLC

VARIABLES
    \* compare_competitors (POST /api/cro/compare)
    urls,              \* request.urls
    pc,                \* position of the handler: "start", "gather", "done" ("idle": no request)
    content_data,      \* per URL: what extract_html_content returned or raised
    performance_data,  \* per URL: what measure_performance returned or raised
    results,           \* per URL: what analyze_single_url returned or raised
    response,          \* what the handler returned or raised
    calls,             \* per URL: how often each collaborator was called
    completion,        \* the order in which the analyze_single_url tasks finished
    \* get_cro_recommendations (POST /api/cro/recommendations)
    include_performance,
    rpc,               \* position of the handler: "start", "gather", "await", "done" ("idle": no request)
    rcontent,          \* content_data of the handler
    rperformance,      \* performance_data of the handler
    rresponse,
    rcalls,            \* how often each collaborator was called
    \* direct applications of the scoring functions
    cro_in, cro_out, perf_in, perf_out

vars == <<urls, pc, content_data, performance_data, results, response, calls, completion,
          include_performance, rpc, rcontent, rperformance, rresponse, rcalls,
          cro_in, cro_out, perf_in, perf_out>>

compareVars == <<urls, pc, content_data, performance_data, results, response,
                 calls, completion>>
recVars == <<include_performance, rpc, rcontent, rperformance, rresponse, rcalls>>
fnVars == <<cro_in, cro_out, perf_in, perf_out>>

----------------------------------------------------------------------------
(* Python values *)

NoText == -1
NoSize == -1

\* sum / max / min over a sequence of integers
RECURSIVE SumSeq(_)
SumSeq(s) == IF s = <<>> THEN 0 ELSE Head(s) + SumSeq(Tail(s))

MaxOf(S) == CHOOSE x \in S : \A y \in S : y <= x
MinOf(S) == CHOOSE x \in S : \A y \in S : x <= y

Range(s) == {s[i] : i \in DOMAIN s}

----------------------------------------------------------------------------
(* calculate_cro_score *)

Rec(tag, n) == [tag |-> tag, n |-> n]

\* mutant: the title length bounds exclusive
TitlePointsExclusive(title) ==
    IF title > 0
    THEN 10 + (IF 30 < title /\ title < 60 THEN 10 ELSE 0)
    ELSE 0

TitlePoints(title) ==
    IF title > 0
    THEN 10 + (IF 30 <= title /\ title <= 60 THEN 10 ELSE 0)
    ELSE 0

TitleRecs(title) ==
    IF title > 0
    THEN IF 30 <= title /\ title <= 60 THEN <<>>
         ELSE IF title < 30 THEN <<Rec("title_too_short", title)>>
              ELSE <<Rec("title_too_long", title)>>
    ELSE <<Rec("add_title", 0)>>

MetaPoints(meta_desc) ==
    IF meta_desc > 0
    THEN 10 + (IF 120 <= meta_desc /\ meta_desc <= 160 THEN 5 ELSE 0)
    ELSE 0

MetaRecs(meta_desc) ==
    IF meta_desc > 0
    THEN IF 120 <= meta_desc /\ meta_desc <= 160 THEN <<>>
         ELSE IF meta_desc < 120 THEN <<Rec("meta_too_short", meta_desc)>>
              ELSE <<Rec("meta_too_long", meta_desc)>>
    ELSE <<Rec("add_meta", 0)>>

H1Points(h1_count) ==
    IF h1_count >= 1
    THEN 10 + (IF h1_count = 1 THEN 5 ELSE 0)
    ELSE 0

H1Recs(h1_count) ==
    IF h1_count >= 1
    THEN IF h1_count = 1 THEN <<>> ELSE <<Rec("multiple_h1", h1_count)>>
    ELSE <<Rec("add_h1", 0)>>

CtaPoints(cta_count) ==
    IF cta_count >= 1
    THEN 15 + (IF cta_count >= 2 THEN 10 ELSE 0)
    ELSE 0

CtaRecs(cta_count) ==
    IF cta_count >= 1
    THEN IF cta_count >= 2 THEN <<>> ELSE <<Rec("more_ctas", 1)>>
    ELSE <<Rec("add_cta", 0)>>

FormPoints(has_forms) == IF has_forms THEN 15 ELSE 0

FormRecs(has_forms) == IF has_forms THEN <<>> ELSE <<Rec("add_form", 0)>>

ContentPoints(content_length) == IF content_length > 1800 THEN 10 ELSE 0

ContentRecs(content_length) ==
    IF content_length > 1800 THEN <<>>
    ELSE <<Rec("add_content", content_length \div 6)>>

Breakdown(c) ==
    [title            |-> TitlePoints(c.title),
     meta_description |-> MetaPoints(c.meta_description),
     h1_tags          |-> H1Points(c.h1_tags),
     ctas             |-> CtaPoints(c.cta_texts),
     forms            |-> FormPoints(c.has_forms),
     content          |-> ContentPoints(c.content_length)]

breakdown_categories ==
    <<"title", "meta_description", "h1_tags", "ctas", "forms", "content">>

\* mutant: the last category left out of the sum
TotalScoreSkipsLast(b) ==
    SumSeq([k \in 1..(Len(breakdown_categories) - 1) |-> b[breakdown_categories[k]]])

TotalScore(b) == SumSeq([k \in 1..Len(breakdown_categories) |-> b[breakdown_categories[k]]])

Congratulations(total_score) ==
    IF total_score >= 80 THEN <<Rec("excellent", 0)>>
    ELSE IF total_score >= 60 THEN <<Rec("good_job", 0)>>
    ELSE <<>>

calculate_cro_score(c) ==
    LET b == Breakdown(c)
        total_score == TotalScore(b)
        recs == TitleRecs(c.title) \o MetaRecs(c.meta_description)
                \o H1Recs(c.h1_tags) \o CtaRecs(c.cta_texts)
                \o FormRecs(c.has_forms) \o ContentRecs(c.content_length)
    IN  [score |-> total_score,
         breakdown |-> b,
         recommendations |-> Congratulations(total_score) \o recs]

----------------------------------------------------------------------------
(* calculate_performance_score, measure_performance, get_performance_recommendations *)

\* mutant: the load-time thresholds inclusive
LoadBandInclusive(load_time_ms) ==
    IF load_time_ms <= 2000 THEN 40
    ELSE IF load_time_ms <= 3000 THEN 30
    ELSE IF load_time_ms <= 5000 THEN 20
    ELSE IF load_time_ms <= 7000 THEN 10
    ELSE 0

LoadBand(load_time_ms) ==
    IF load_time_ms < 2000 THEN 40
    ELSE IF load_time_ms < 3000 THEN 30
    ELSE IF load_time_ms < 5000 THEN 20
    ELSE IF load_time_ms < 7000 THEN 10
    ELSE 0

DclBand(dom_content_loaded_ms) ==
    IF dom_content_loaded_ms < 1000 THEN 30
    ELSE IF dom_content_loaded_ms < 2000 THEN 20
    ELSE IF dom_content_loaded_ms < 3000 THEN 10
    ELSE 0

SizeBand(page_size_kb) ==
    IF page_size_kb # NoSize
    THEN IF page_size_kb < 500 THEN 30
         ELSE IF page_size_kb < 1024 THEN 20
         ELSE IF page_size_kb < 2048 THEN 10
         ELSE 0
    ELSE 15

calculate_performance_score(load_time_ms, dom_content_loaded_ms, page_size_kb) ==
    LET score == LoadBand(load_time_ms) + DclBand(dom_content_loaded_ms)
                 + SizeBand(page_size_kb)
    IN  IF score < 100 THEN score ELSE 100

\* the dict measure_performance returns for the timing data the browser reports
PerformanceData(m) ==
    [load_time_ms          |-> m.load_time_ms,
     dom_content_loaded_ms |-> m.dom_content_loaded_ms,
     page_size_kb          |-> m.page_size_kb,
     performance_score     |-> calculate_performance_score(
                                   m.load_time_ms, m.dom_content_loaded_ms, m.page_size_kb)]

get_performance_recommendations(metrics) ==
    LET load == metrics.load_time_ms
        dcl  == metrics.dom_content_loaded_ms
        size == metrics.page_size_kb
        score == metrics.performance_score
    IN  (IF load >= 5000 THEN <<Rec("perf_load_slow", load)>>
         ELSE IF load >= 3000 THEN <<Rec("perf_load_moderate", load)>>
         ELSE <<>>)
        \o (IF dcl >= 2000 THEN <<Rec("perf_dcl_high", dcl)>> ELSE <<>>)
        \o (IF size # NoSize /\ size # 0 /\ size >= 2048 THEN <<Rec("perf_size_large", size)>>
            ELSE IF size # NoSize /\ size # 0 /\ size >= 1024
                 THEN <<Rec("perf_size_moderate", size)>>
            ELSE <<>>)
        \o (IF score < 50 THEN <<Rec("perf_critical", 0)>>
            ELSE IF score < 75 THEN <<Rec("perf_consider", 0)>>
            ELSE <<Rec("perf_great", 0)>>)

----------------------------------------------------------------------------
(* outcomes of coroutines and what gather(..., return_exceptions=True) collects *)

Pending == [kind |-> "pending"]
Ok(v) == [kind |-> "ok", v |-> v]
HTTPException(status_code, detail) ==
    [kind |-> "exception", status_code |-> status_code, detail |-> detail]

IsException(r) == r.kind = "exception"
IsDone(r) == r.kind \in {"ok", "exception"}

\* extract_html_content raises HTTPException(408) on a Playwright timeout and
\* HTTPException(400) on any other failure; measure_performance likewise
ExtractTimeout == HTTPException(408, "timeout_loading_page")
ExtractError == HTTPException(400, "failed_to_extract_content")
MeasureTimeout == HTTPException(408, "timeout_measuring_performance")
MeasureError == HTTPException(400, "failed_to_measure_performance")

----------------------------------------------------------------------------
(* analyze_single_url: the part after the inner gather has joined *)

PlaceholderPerformance ==
    [load_time_ms |-> 0, dom_content_loaded_ms |-> 0,
     page_size_kb |-> NoSize, performance_score |-> 0]

\* mutant: a failed measurement raised like a failed content fetch
AnalysisResultMeasurementFatal(url, content, performance) ==
    IF IsException(content) THEN content
    ELSE IF IsException(performance) THEN performance
    ELSE LET cro == calculate_cro_score(content.v)
         IN  Ok([url |-> url,
                 cro_score |-> cro.score,
                 breakdown |-> cro.breakdown,
                 performance |-> performance.v,
                 performance_score |-> performance.v.performance_score])

AnalysisResult(url, content, performance) ==
    IF IsException(content) THEN content
    ELSE LET perf == IF IsException(performance) THEN PlaceholderPerformance
                     ELSE performance.v
             cro == calculate_cro_score(content.v)
         IN  Ok([url |-> url,
                 cro_score |-> cro.score,
                 breakdown |-> cro.breakdown,
                 performance |-> perf,
                 performance_score |-> perf.performance_score])

----------------------------------------------------------------------------
(* compare_competitors: the part after the outer gather has joined *)

\* indices i..Len(rs) of the outcomes that are (failed = TRUE) or are not
\* (failed = FALSE) exceptions, in increasing order
RECURSIVE SelectIdx(_, _, _)
SelectIdx(rs, i, failed) ==
    IF i > Len(rs) THEN <<>>
    ELSE (IF IsException(rs[i]) = failed THEN <<i>> ELSE <<>>)
         \o SelectIdx(rs, i + 1, failed)

SuccessfulResults(rs) ==
    LET idx == SelectIdx(rs, 1, FALSE)
    IN  [k \in 1..Len(idx) |-> rs[idx[k]].v]

FailedUrls(us, rs) ==
    LET idx == SelectIdx(rs, 1, TRUE)
    IN  [k \in 1..Len(idx) |-> us[idx[k]]]

WithCombinedScore(rs) ==
    [k \in 1..Len(rs) |->
        [url |-> rs[k].url, cro_score |-> rs[k].cro_score,
         breakdown |-> rs[k].breakdown, performance |-> rs[k].performance,
         performance_score |-> rs[k].performance_score,
         combined_score |-> rs[k].cro_score + rs[k].performance_score]]

\* mutant: an unstable sort, x goes in front of the elements with an equal key
RECURSIVE InsertDescUnstable(_, _)
InsertDescUnstable(s, x) ==
    IF s = <<>> THEN <<x>>
    ELSE IF Head(s).combined_score > x.combined_score
         THEN <<Head(s)>> \o InsertDescUnstable(Tail(s), x)
         ELSE <<x>> \o s

\* list.sort(key=combined_score, reverse=True): stable, equal keys keep their order.
\* x goes behind every element whose key is not smaller
RECURSIVE InsertDesc(_, _)
InsertDesc(s, x) ==
    IF s = <<>> THEN <<x>>
    ELSE IF Head(s).combined_score >= x.combined_score
         THEN <<Head(s)>> \o InsertDesc(Tail(s), x)
         ELSE <<x>> \o s

RECURSIVE SortDesc(_)
SortDesc(s) ==
    IF s = <<>> THEN <<>>
    ELSE InsertDesc(SortDesc(SubSeq(s, 1, Len(s) - 1)), s[Len(s)])

ComparisonResults(sorted) ==
    [k \in 1..Len(sorted) |->
        [url |-> sorted[k].url, score |-> sorted[k].cro_score,
         breakdown |-> sorted[k].breakdown, performance |-> sorted[k].performance,
         rank |-> k]]

\* max(results, key=...): the first element with the largest key; keys[k] is
\* the key of rs[k]
MaxBy(rs, keys) ==
    LET top == MaxOf(Range(keys))
        first == MinOf({k \in DOMAIN keys : keys[k] = top})
    IN  rs[first]

\* mutant: the performance winner taken by cro_score (a copied line not adapted)
determine_winnersCopied(rs) ==
    IF rs = <<>> THEN <<>>
    ELSE [overall     |-> MaxBy(rs, [k \in DOMAIN rs |-> rs[k].combined_score]).url,
          cro_score   |-> MaxBy(rs, [k \in DOMAIN rs |-> rs[k].cro_score]).url,
          performance |-> MaxBy(rs, [k \in DOMAIN rs |-> rs[k].cro_score]).url]
         @@ [category \in Range(breakdown_categories) |->
                MaxBy(rs, [k \in DOMAIN rs |-> rs[k].breakdown[category]]).url]

determine_winners(rs) ==
    IF rs = <<>> THEN <<>>
    ELSE [overall     |-> MaxBy(rs, [k \in DOMAIN rs |-> rs[k].combined_score]).url,
          cro_score   |-> MaxBy(rs, [k \in DOMAIN rs |-> rs[k].cro_score]).url,
          performance |-> MaxBy(rs, [k \in DOMAIN rs |-> rs[k].performance_score]).url]
         @@ [category \in Range(breakdown_categories) |->
                MaxBy(rs, [k \in DOMAIN rs |-> rs[k].breakdown[category]]).url]

\* format(num / den, ".0f"): round to nearest, ties to even (num, den >= 0)
RoundDiv(num, den) ==
    LET q == num \div den
        r == num % den
    IN  IF 2 * r < den THEN q
        ELSE IF 2 * r > den THEN q + 1
        ELSE IF q % 2 = 0 THEN q ELSE q + 1

Insight(tag, n, us) == [tag |-> tag, n |-> n, urls |-> us]

\* mutant: the count taken of the truncated list
FailedInsightCountsNamed(failed_urls) ==
    LET named == SubSeq(failed_urls, 1, IF Len(failed_urls) < 3
                                        THEN Len(failed_urls) ELSE 3)
    IN  IF failed_urls # <<>> THEN <<Insight("failed", Len(named), named)>> ELSE <<>>

\* "{len(failed_urls)} URL(s) failed to analyze: {', '.join(failed_urls[:3])}"
FailedInsight(failed_urls) ==
    IF failed_urls # <<>>
    THEN <<Insight("failed", Len(failed_urls),
                   SubSeq(failed_urls, 1, IF Len(failed_urls) < 3
                                          THEN Len(failed_urls) ELSE 3))>>
    ELSE <<>>

generate_comparison_insights(rs, failed_urls) ==
    IF rs = <<>> THEN <<Insight("no_successful_analyses", 0, <<>>)>>
    ELSE
    LET n == Len(rs)
        cro_scores == [k \in 1..n |-> rs[k].cro_score]
        perf_scores == [k \in 1..n |-> rs[k].performance_score]
        load_times == [k \in 1..n |-> rs[k].performance.load_time_ms]
        best == rs[1]
        worst == rs[n]
    IN  <<Insight("average_cro", RoundDiv(SumSeq(cro_scores), n), <<>>),
          Insight("average_performance", RoundDiv(SumSeq(perf_scores), n), <<>>),
          Insight("top_performer", best.combined_score, <<best.url>>)>>
        \o (IF n > 1
            THEN <<Insight("score_gap", best.combined_score - worst.combined_score, <<>>)>>
            ELSE <<>>)
        \o (IF MaxOf(Range(cro_scores)) - MinOf(Range(cro_scores)) > 30
            THEN <<Insight("cro_variance", 0, <<>>)>> ELSE <<>>)
        \o (IF MaxOf(Range(perf_scores)) - MinOf(Range(perf_scores)) > 30
            THEN <<Insight("performance_variance", 0, <<>>)>> ELSE <<>>)
        \o (IF SumSeq(load_times) > 3000 * n
            THEN <<Insight("slow_average_load", RoundDiv(SumSeq(load_times), 10 * n), <<>>)>>
            ELSE <<>>)
        \o FailedInsight(failed_urls)
        \o <<Insight("opportunity", 0, <<>>)>>

\* mutant: gather without return_exceptions, the first failure aborts the request
ComparisonAnalysisAborting(us, rs) ==
    LET sorted == SortDesc(WithCombinedScore(SuccessfulResults(rs)))
    IN  IF FailedUrls(us, rs) # <<>>
        THEN HTTPException(500, "failed_to_complete_comparison")
        ELSE [kind |-> "ok",
              total_analyzed |-> Len(sorted),
              results |-> ComparisonResults(sorted),
              winner |-> determine_winners(sorted),
              insights |-> generate_comparison_insights(sorted, <<>>)]

\* mutant: the check for an empty successful_results left out
ComparisonAnalysisUnchecked(us, rs) ==
    LET sorted == SortDesc(WithCombinedScore(SuccessfulResults(rs)))
    IN  [kind |-> "ok",
         total_analyzed |-> Len(sorted),
         results |-> ComparisonResults(sorted),
         winner |-> determine_winners(sorted),
         insights |-> generate_comparison_insights(sorted, FailedUrls(us, rs))]

\* mutant: the winners taken over the successful results in input order,
\* before the sort
ComparisonAnalysisWinnersUnsorted(us, rs) ==
    LET successful_results == SuccessfulResults(rs)
        failed_urls == FailedUrls(us, rs)
        sorted == SortDesc(WithCombinedScore(successful_results))
    IN  IF successful_results = <<>>
        THEN HTTPException(500, "all_url_analyses_failed")
        ELSE [kind |-> "ok",
              total_analyzed |-> Len(sorted),
              results |-> ComparisonResults(sorted),
              winner |-> determine_winners(WithCombinedScore(successful_results)),
              insights |-> generate_comparison_insights(sorted, failed_urls)]

ComparisonAnalysis(us, rs) ==
    LET successful_results == SuccessfulResults(rs)
        failed_urls == FailedUrls(us, rs)
        sorted == SortDesc(WithCombinedScore(successful_results))
    IN  IF successful_results = <<>>
        THEN HTTPException(500, "all_url_analyses_failed")
        ELSE [kind |-> "ok",
              total_analyzed |-> Len(sorted),
              results |-> ComparisonResults(sorted),
              winner |-> determine_winners(sorted),
              insights |-> generate_comparison_insights(sorted, failed_urls)]

----------------------------------------------------------------------------
(* get_cro_recommendations: the part after the join *)

NoPerformance == [kind |-> "none"]     \* performance=None

\* mutant: a failed measurement raised like a failed content fetch
CROAnalysisMeasurementFatal(url, content, performance) ==
    IF IsException(content) THEN content
    ELSE IF IsException(performance) THEN performance
    ELSE LET cro == calculate_cro_score(content.v)
             measured == performance.kind = "ok"
         IN  [kind |-> "ok",
              url |-> url,
              score |-> cro.score,
              breakdown |-> cro.breakdown,
              recommendations |->
                  cro.recommendations
                  \o (IF measured THEN get_performance_recommendations(performance.v)
                      ELSE <<>>),
              performance |-> IF measured THEN performance.v ELSE NoPerformance]

CROAnalysis(url, content, performance) ==
    IF IsException(content) THEN content
    ELSE LET cro == calculate_cro_score(content.v)
             measured == performance.kind = "ok"
         IN  [kind |-> "ok",
              url |-> url,
              score |-> cro.score,
              breakdown |-> cro.breakdown,
              recommendations |->
                  cro.recommendations
                  \o (IF measured THEN get_performance_recommendations(performance.v)
                      ELSE <<>>),
              performance |-> IF measured THEN performance.v ELSE NoPerformance]

----------------------------------------------------------------------------
(* inputs *)

MIN_URLS == 2
MAX_URLS == 10

\* bounds of the explored inputs
MaxUrls == 3             \* longest request explored under every interleaving
MaxH1 == 3               \* largest number of H1 tags
MaxCtas == 5             \* scraper keeps the first 5 CTA matches

UrlPool == <<"u1", "u2", "u3", "u4", "u5", "u6", "u7", "u8", "u9", "u10", "u11", "u12">>

Request(n) == SubSeq(UrlPool, 1, n)

Page(title, meta, h1, ctas, forms, len) ==
    [title |-> title, meta_description |-> meta, h1_tags |-> h1,
     cta_texts |-> ctas, has_forms |-> forms, content_length |-> len]

Timing(load, dcl, size) ==
    [load_time_ms |-> load, dom_content_loaded_ms |-> dcl, page_size_kb |-> size]

\* pages and timings the collaborators yield in the comparison runs
PageA == Page(45, 140, 1, 2, TRUE, 1200)        \* CRO score 90
PageB == Page(45, 50, 2, 0, FALSE, 2400)        \* CRO score 50
TimingFast == Timing(1500, 800, 300)            \* performance score 100
TimingSlow == Timing(4200, 1500, 700)           \* performance score 60

ExtractOutcomes == {ExtractError, Ok(PageA), Ok(PageB)}
MeasureOutcomes == {MeasureError, Ok(PerformanceData(TimingFast)),
                    Ok(PerformanceData(TimingSlow))}

\* the runs that record the completion order: one timing
OrderMeasureOutcomes == {MeasureError, Ok(PerformanceData(TimingSlow))}

\* the long requests (up to MAX_URLS + 1 URLs): every URL either fails to load or
\* yields one page, the measurement yields one timing, completion in input order
SeqExtractOutcomes == {ExtractError, Ok(PageA)}
SeqMeasureOutcomes == {Ok(PerformanceData(TimingSlow))}

\* the standalone endpoint
RecPages == {PageA, PageB, Page(NoText, NoText, 0, 1, FALSE, 0),
             Page(70, 200, 1, 5, TRUE, 1801), Page(20, 130, 3, 1, TRUE, 1800)}
RecTimings == {TimingFast, TimingSlow, Timing(7000, 3000, 2048),
               Timing(3000, 2000, NoSize), Timing(5000, 999, 1024)}
RecExtractOutcomes == {ExtractTimeout, ExtractError} \cup {Ok(p) : p \in RecPages}
RecMeasureOutcomes == {MeasureTimeout, MeasureError}
                      \cup {Ok(PerformanceData(t)) : t \in RecTimings}

\* inputs of the scoring functions: the rubric's boundary values
TextLengths == {NoText, 0, 1, 29, 30, 31, 59, 60, 61, 119, 120, 121, 159, 160, 161}
ContentLengths == {0, 5, 6, 1799, 1800, 1801, 5000}
PageSignals ==
    {Page(t, m, h, c, f, l) : t \in TextLengths, m \in TextLengths, h \in 0..MaxH1,
                              c \in 0..MaxCtas, f \in BOOLEAN, l \in ContentLengths}

LoadTimes == {0, 1999, 2000, 2999, 3000, 4999, 5000, 6999, 7000, 30000}
DclTimes == {0, 999, 1000, 1999, 2000, 2999, 3000, 30000}
PageSizes == {NoSize, 1, 499, 500, 1023, 1024, 2047, 2048, 9000}
PerformanceSignals ==
    {Timing(l, d, z) : l \in LoadTimes, d \in DclTimes, z \in PageSizes}

----------------------------------------------------------------------------
(* state *)

NoCalls == [extract |-> 0, measure |-> 0]

\* one more call of a collaborator ("extract" or "measure")
Called(c, collaborator) == [c EXCEPT ![collaborator] = @ + 1]

\* the completion order of the tasks is recorded (Observed) or not (Unobserved);
\* the code never reads it
Unobserved == completion = [recorded |-> FALSE, order |-> <<>>]
Observed == completion = [recorded |-> TRUE, order |-> <<>>]

CompareIdle ==
    /\ urls = <<>>
    /\ pc = "idle"
    /\ content_data = <<>>
    /\ performance_data = <<>>
    /\ results = <<>>
    /\ response = Pending
    /\ calls = <<>>
    /\ Unobserved

RecIdle ==
    /\ include_performance = FALSE
    /\ rpc = "idle"
    /\ rcontent = Pending
    /\ rperformance = Pending
    /\ rresponse = Pending
    /\ rcalls = NoCalls

FnIdle ==
    /\ cro_in = Pending
    /\ cro_out = Pending
    /\ perf_in = Pending
    /\ perf_out = Pending

CompareInit(lengths) ==
    /\ urls \in {Request(n) : n \in lengths}
    /\ pc = "start"
    /\ content_data = <<>>
    /\ performance_data = <<>>
    /\ results = <<>>
    /\ response = Pending
    /\ calls = <<>>

Init == CompareInit(0..MaxUrls) /\ Unobserved /\ RecIdle /\ FnIdle

InitSeq == CompareInit(0..(MAX_URLS + 1)) /\ Unobserved /\ RecIdle /\ FnIdle

InitRec ==
    /\ CompareIdle /\ FnIdle
    /\ include_performance \in BOOLEAN
    /\ rpc = "start"
    /\ rcontent = Pending
    /\ rperformance = Pending
    /\ rresponse = Pending
    /\ rcalls = NoCalls

InitCro ==
    /\ CompareIdle /\ RecIdle
    /\ cro_in \in PageSignals
    /\ cro_out = Pending
    /\ perf_in = Pending
    /\ perf_out = Pending

InitPerf ==
    /\ CompareIdle /\ RecIdle
    /\ perf_in \in PerformanceSignals
    /\ perf_out = Pending
    /\ cro_in = Pending
    /\ cro_out = Pending

----------------------------------------------------------------------------
(* compare_competitors *)

\* mutant: the upper check written >= instead of >
ValidateCountOffByOne(us) ==
    IF us = <<>> \/ Len(us) < MIN_URLS
    THEN HTTPException(400, "at_least_2_urls")
    ELSE IF Len(us) >= MAX_URLS
    THEN HTTPException(400, "maximum_10_urls")
    ELSE Pending

\* the two count checks: the HTTPException raised, or Pending when both pass
ValidateCount(us) ==
    IF us = <<>> \/ Len(us) < MIN_URLS
    THEN HTTPException(400, "at_least_2_urls")
    ELSE IF Len(us) > MAX_URLS
    THEN HTTPException(400, "maximum_10_urls")
    ELSE Pending

\* up to the outer gather: the count checks, then one analyze_single_url per URL,
\* each of which starts extract_html_content and measure_performance
CompareStart ==
    /\ pc = "start"
    /\ IF IsException(ValidateCount(urls))
       THEN /\ response' = ValidateCount(urls)
            /\ pc' = "done"
            /\ UNCHANGED <<content_data, performance_data, results, calls>>
       ELSE /\ pc' = "gather"
            /\ content_data' = [i \in DOMAIN urls |-> Pending]
            /\ performance_data' = [i \in DOMAIN urls |-> Pending]
            /\ results' = [i \in DOMAIN urls |-> Pending]
            /\ calls' = [i \in DOMAIN urls |-> Called(Called(NoCalls, "extract"), "measure")]
            /\ UNCHANGED response
    /\ UNCHANGED <<urls, completion, recVars, fnVars>>

\* mutant: a failed content fetch is tried once more
ExtractDoneRetrying(i, outcomes) ==
    /\ pc = "gather"
    /\ content_data[i] = Pending
    /\ \E o \in outcomes :
          IF IsException(o) /\ calls[i].extract < 2
          THEN /\ calls' = [calls EXCEPT ![i] = Called(@, "extract")]
               /\ UNCHANGED content_data
          ELSE /\ content_data' = [content_data EXCEPT ![i] = o]
               /\ UNCHANGED calls
    /\ UNCHANGED <<urls, pc, performance_data, results, response, completion,
                   recVars, fnVars>>

\* extract_html_content(urls[i]) returns or raises
ExtractDone(i, outcomes) ==
    /\ pc = "gather"
    /\ content_data[i] = Pending
    /\ \E o \in outcomes : content_data' = [content_data EXCEPT ![i] = o]
    /\ UNCHANGED <<urls, pc, performance_data, results, response, calls, completion,
                   recVars, fnVars>>

\* measure_performance(urls[i]) returns or raises
MeasureDone(i, outcomes) ==
    /\ pc = "gather"
    /\ performance_data[i] = Pending
    /\ \E o \in outcomes : performance_data' = [performance_data EXCEPT ![i] = o]
    /\ UNCHANGED <<urls, pc, content_data, results, response, calls, completion,
                   recVars, fnVars>>

\* analyze_single_url(urls[i]) resumes after its gather and returns or raises
AnalyzeResume(i) ==
    /\ pc = "gather"
    /\ results[i] = Pending
    /\ IsDone(content_data[i]) /\ IsDone(performance_data[i])
    /\ results' = [results EXCEPT
                     ![i] = AnalysisResult(urls[i], content_data[i], performance_data[i])]
    /\ completion' = IF completion.recorded
                      THEN [completion EXCEPT !.order = Append(@, i)]
                      ELSE completion
    /\ UNCHANGED <<urls, pc, content_data, performance_data, response, calls,
                   recVars, fnVars>>

\* mutant: the outcomes taken in completion order (asyncio.as_completed) instead
\* of the order of the awaitables given to gather
CompareResumeAsCompleted ==
    /\ pc = "gather"
    /\ \A i \in DOMAIN results : IsDone(results[i])
    /\ LET order == IF completion.recorded THEN completion.order
                    ELSE [k \in DOMAIN urls |-> k]
       IN  response' = ComparisonAnalysis([k \in DOMAIN order |-> urls[order[k]]],
                                          [k \in DOMAIN order |-> results[order[k]]])
    /\ pc' = "done"
    /\ UNCHANGED <<urls, content_data, performance_data, results, calls, completion,
                   recVars, fnVars>>

\* compare_competitors resumes after its gather and returns or raises; results
\* stays as the record of what the gather collected
CompareResume ==
    /\ pc = "gather"
    /\ \A i \in DOMAIN results : IsDone(results[i])
    /\ response' = ComparisonAnalysis(urls, results)
    /\ pc' = "done"
    /\ UNCHANGED <<urls, content_data, performance_data, results, calls, completion,
                   recVars, fnVars>>

Next ==
    \/ CompareStart
    \/ \E i \in DOMAIN urls : ExtractDone(i, ExtractOutcomes)
    \/ \E i \in DOMAIN urls : MeasureDone(i, MeasureOutcomes)
    \/ \E i \in DOMAIN urls : AnalyzeResume(i)
    \/ CompareResume

Spec == Init /\ [][Next]_vars

\* the tasks of URL i run once every earlier URL's analysis has finished
InOrder(i) == pc = "gather" /\ \A j \in 1..(i - 1) : IsDone(results[j])

NextSeq ==
    \/ CompareStart
    \/ \E i \in DOMAIN urls : InOrder(i) /\ ExtractDone(i, SeqExtractOutcomes)
    \/ \E i \in DOMAIN urls : InOrder(i) /\ MeasureDone(i, SeqMeasureOutcomes)
    \/ \E i \in DOMAIN urls : AnalyzeResume(i)
    \/ CompareResume

SpecSeq == InitSeq /\ [][NextSeq]_vars

----------------------------------------------------------------------------
(* get_cro_recommendations *)

RecUrl == "u1"

\* up to the first await: gather of both collaborators, or extract alone
RecStart ==
    /\ rpc = "start"
    /\ rpc' = IF include_performance THEN "gather" ELSE "await"
    /\ rcalls' = IF include_performance
                 THEN Called(Called(rcalls, "extract"), "measure")
                 ELSE Called(rcalls, "extract")
    /\ UNCHANGED <<include_performance, rcontent, rperformance, rresponse,
                   compareVars, fnVars>>

RecExtractDone(outcomes) ==
    /\ rpc \in {"gather", "await"}
    /\ rcontent = Pending
    /\ \E o \in outcomes : rcontent' = o
    /\ UNCHANGED <<include_performance, rpc, rperformance, rresponse, rcalls,
                   compareVars, fnVars>>

RecMeasureDone(outcomes) ==
    /\ rpc = "gather"
    /\ rperformance = Pending
    /\ \E o \in outcomes : rperformance' = o
    /\ UNCHANGED <<include_performance, rpc, rcontent, rresponse, rcalls,
                   compareVars, fnVars>>

\* the handler resumes after the join (or after extract alone) and returns or raises
RecResume ==
    /\ \/ rpc = "gather" /\ IsDone(rcontent) /\ IsDone(rperformance)
       \/ rpc = "await" /\ IsDone(rcontent)
    /\ rresponse' = CROAnalysis(RecUrl, rcontent, rperformance)
    /\ rpc' = "done"
    /\ UNCHANGED <<include_performance, rcontent, rperformance, rcalls,
                   compareVars, fnVars>>

NextRec ==
    \/ RecStart
    \/ RecExtractDone(RecExtractOutcomes)
    \/ RecMeasureDone(RecMeasureOutcomes)
    \/ RecResume

SpecRec == InitRec /\ [][NextRec]_vars

\* a compare request whose tasks' completion order is recorded
InitOrder == CompareInit(0..MaxUrls) /\ Observed /\ RecIdle /\ FnIdle

NextOrder ==
    \/ CompareStart
    \/ \E i \in DOMAIN urls : ExtractDone(i, ExtractOutcomes)
    \/ \E i \in DOMAIN urls : MeasureDone(i, OrderMeasureOutcomes)
    \/ \E i \in DOMAIN urls : AnalyzeResume(i)
    \/ CompareResume

SpecOrder == InitOrder /\ [][NextOrder]_vars

\* one request, to either endpoint
InitEither == Init \/ InitRec

NextEither == Next \/ NextRec

SpecEither == InitEither /\ [][NextEither]_vars

----------------------------------------------------------------------------
(* the scoring functions applied to every input *)

ScoreContent ==
    /\ cro_in # Pending
    /\ cro_out = Pending
    /\ cro_out' = Ok(calculate_cro_score(cro_in))
    /\ UNCHANGED <<cro_in, perf_in, perf_out, compareVars, recVars>>

SpecCro == InitCro /\ [][ScoreContent]_vars

ScorePerformance ==
    /\ perf_in # Pending
    /\ perf_out = Pending
    /\ perf_out' = Ok(calculate_performance_score(
                          perf_in.load_time_ms, perf_in.dom_content_loaded_ms,
                          perf_in.page_size_kb))
    /\ UNCHANGED <<cro_in, cro_out, perf_in, compareVars, recVars>>

SpecPerf == InitPerf /\ [][ScorePerformance]_vars

----------------------------------------------------------------------------
(* properties of compare_competitors *)

Returned == pc = "done" /\ response.kind = "ok"
CountValid == Len(urls) >= MIN_URLS /\ Len(urls) <= MAX_URLS

Fetched == {i \in DOMAIN content_data : content_data[i].kind = "ok"}
Analyzed == {i \in DOMAIN results : results[i].kind = "ok"}
Failed == {i \in DOMAIN results : IsException(results[i])}

\* position of a URL in the request (the URLs of a request are distinct)
PosOf(url) == CHOOSE i \in DOMAIN urls : urls[i] = url

CombinedOf(r) == r.score + r.performance.performance_score

\* C1: a count-valid request in which at least one URL's content fetch succeeds
\* returns an analysis whose total_analyzed and results length both equal the
\* number of URLs whose fetch succeeded, at most the number of URLs requested,
\* and whose results hold exactly the URLs whose fetch succeeded
C1_PartialSuccess ==
    (pc = "done" /\ CountValid /\ Fetched # {}) =>
        /\ response.kind = "ok"
        /\ response.total_analyzed = Cardinality(Fetched)
        /\ Len(response.results) = Cardinality(Fetched)
        /\ response.total_analyzed <= Len(urls)
        /\ {response.results[k].url : k \in DOMAIN response.results}
               = {urls[i] : i \in Fetched}

\* three URLs, two fetched and one not
C1_Witness ==
    /\ Returned
    /\ Len(urls) = 3
    /\ Cardinality(Fetched) = 2
    /\ response.total_analyzed = 2

\* C2: the returned results are in descending order of cro score + performance
\* score, results with equal combined score are in input order, and rank is the
\* 1-based position
C2_StableRanking ==
    Returned =>
        /\ \A k \in DOMAIN response.results : response.results[k].rank = k
        /\ \A k, l \in DOMAIN response.results :
              k < l =>
                 LET a == response.results[k]
                     b == response.results[l]
                 IN  /\ CombinedOf(a) >= CombinedOf(b)
                     /\ CombinedOf(a) = CombinedOf(b) => PosOf(a.url) < PosOf(b.url)

\* combined scores [150, 90, 150] for u1, u2, u3 give the order u1, u3, u2
C2_Witness ==
    /\ Returned
    /\ Len(response.results) = 3
    /\ [k \in 1..3 |-> response.results[k].url] = <<"u1", "u3", "u2">>
    /\ [k \in 1..3 |-> CombinedOf(response.results[k])] = <<150, 150, 90>>
    /\ [k \in 1..3 |-> response.results[k].rank] = <<1, 2, 3>>

IsValidationError(r) == IsException(r) /\ r.status_code = 400

\* C3: once the handler has passed its count checks, the request has failed with
\* a validation error exactly if it has fewer than 2 or more than 10 URLs
C3_CountValidation ==
    pc # "start" => (IsValidationError(response) <=> ~CountValid)

\* eleven URLs are rejected
C3_Witness ==
    /\ pc = "done"
    /\ Len(urls) = MAX_URLS + 1
    /\ IsValidationError(response)

AllFailedError == HTTPException(500, "all_url_analyses_failed")

\* C4: a count-valid request ends in the all-failed error exactly if every
\* URL's analysis failed, and returns an analysis exactly if some URL's succeeded
C4_AllFailed ==
    (pc = "done" /\ CountValid) =>
        /\ response = AllFailedError <=> Analyzed = {}
        /\ response.kind = "ok" <=> Analyzed # {}

\* every URL of a count-valid request failed
C4_Witness ==
    /\ pc = "done"
    /\ CountValid
    /\ Failed = DOMAIN urls
    /\ response = AllFailedError

FailedInsights == SelectSeq(response.insights, LAMBDA x : x.tag = "failed")

\* C5 as claimed: every failed URL of a returned analysis is named in the insights
C5_EveryFailedUrlNamed ==
    Returned =>
        \A i \in Failed :
            \E k \in DOMAIN response.insights :
                urls[i] \in Range(response.insights[k].urls)

\* C5: a returned analysis with failed URLs has exactly one failure insight; it
\* gives the number of failed URLs and names the first three of them in input
\* order (all of them when at most three failed); without failed URLs there is
\* no failure insight
C5_FirstThreeFailedNamed ==
    Returned =>
        IF Failed = {} THEN FailedInsights = <<>>
        ELSE /\ Len(FailedInsights) = 1
             /\ FailedInsights[1].n = Cardinality(Failed)
             /\ LET named == FailedInsights[1].urls
                IN  /\ Len(named) = (IF Cardinality(Failed) < 3
                                     THEN Cardinality(Failed) ELSE 3)
                    /\ \A k \in DOMAIN named :
                          /\ PosOf(named[k]) \in Failed
                          /\ Cardinality({i \in Failed : i < PosOf(named[k])}) = k - 1

\* nine of ten URLs failed
C5_Witness ==
    /\ Returned
    /\ Len(urls) = MAX_URLS
    /\ Cardinality(Failed) = MAX_URLS - 1
    /\ Len(FailedInsights) = 1

MeasurementFailed(i) ==
    /\ IsDone(results[i])
    /\ content_data[i].kind = "ok"
    /\ IsException(performance_data[i])

WinnerKeys ==
    {"overall", "cro_score", "performance",
     "title", "meta_description", "h1_tags", "ctas", "forms", "content"}

\* the quantity a winner key is decided by
QuantityOf(r, key) ==
    CASE key = "overall" -> CombinedOf(r)
      [] key = "cro_score" -> r.score
      [] key = "performance" -> r.performance.performance_score
      [] OTHER -> r.breakdown[key]

\* C8: the winner map of a returned analysis has exactly the 9 keys, and each
\* value is the URL of a returned result whose quantity for that key is the
\* largest among the returned results
C8_Winners ==
    Returned =>
        /\ DOMAIN response.winner = WinnerKeys
        /\ \A key \in WinnerKeys :
              \E k \in DOMAIN response.results :
                  /\ response.results[k].url = response.winner[key]
                  /\ \A l \in DOMAIN response.results :
                        QuantityOf(response.results[l], key)
                            <= QuantityOf(response.results[k], key)

\* different URLs win different keys
C8_Witness ==
    /\ Returned
    /\ Len(response.results) = 3
    /\ response.winner["overall"] # response.winner["cro_score"]
    /\ response.winner["cro_score"] # response.winner["performance"]
    /\ response.winner["content"] # response.winner["ctas"]

----------------------------------------------------------------------------
(* properties of get_cro_recommendations *)

PerformanceTags ==
    {"perf_load_slow", "perf_load_moderate", "perf_dcl_high", "perf_size_large",
     "perf_size_moderate", "perf_critical", "perf_consider", "perf_great"}

\* C7: with performance included the handler answers only after both the
\* content fetch and the measurement have finished; a failed content fetch
\* fails the request whatever the measurement did; a failed measurement alone
\* gives an analysis without performance and without performance recommendations
C7_MeasurementNonFatal ==
    rpc = "done" =>
        /\ include_performance => IsDone(rcontent) /\ IsDone(rperformance)
        /\ IsException(rcontent) => IsException(rresponse)
        /\ (include_performance /\ rcontent.kind = "ok" /\ IsException(rperformance)) =>
              /\ rresponse.kind = "ok"
              /\ rresponse.performance = NoPerformance
              /\ \A k \in DOMAIN rresponse.recommendations :
                    rresponse.recommendations[k].tag \notin PerformanceTags

\* content fetched, measurement failed, analysis returned
C7_Witness ==
    /\ rpc = "done"
    /\ include_performance
    /\ rcontent.kind = "ok"
    /\ IsException(rperformance)
    /\ rresponse.kind = "ok"
    /\ rresponse.recommendations # <<>>

----------------------------------------------------------------------------
(* properties of the scoring functions *)

CategoryMax ==
    [title |-> 20, meta_description |-> 15, h1_tags |-> 15,
     ctas |-> 25, forms |-> 15, content |-> 10]

\* C9: the score calculate_cro_score returns is the sum of the six breakdown
\* values, each breakdown value is between 0 and its category maximum, and the
\* score is between 0 and 100
C9_ScoreIsBreakdownSum ==
    cro_out.kind = "ok" =>
        LET b == cro_out.v.breakdown
            score == cro_out.v.score
        IN  /\ DOMAIN b = DOMAIN CategoryMax
            /\ score = b.title + b.meta_description + b.h1_tags
                       + b.ctas + b.forms + b.content
            /\ \A c \in DOMAIN CategoryMax : 0 <= b[c] /\ b[c] <= CategoryMax[c]
            /\ 0 <= score /\ score <= 100

\* a page that earns every point, content bonus included
C9_Witness ==
    /\ cro_out.kind = "ok"
    /\ cro_out.v.score = 100
    /\ cro_out.v.breakdown = CategoryMax

\* the bands as the documentation of calculate_performance_score tabulates them
BandOf(x, table) ==
    LET hits == {k \in DOMAIN table : x < table[k][1]}
    IN  IF hits = {} THEN 0 ELSE table[MinOf(hits)][2]

LoadTable == <<<<2000, 40>>, <<3000, 30>>, <<5000, 20>>, <<7000, 10>>>>
DclTable == <<<<1000, 30>>, <<2000, 20>>, <<3000, 10>>>>
SizeTable == <<<<500, 30>>, <<1024, 20>>, <<2048, 10>>>>
LoadExamples ==
    {<<1999, 40>>, <<2000, 30>>, <<2999, 30>>, <<3000, 20>>, <<6999, 10>>, <<7000, 0>>}

\* C10: calculate_performance_score is the sum of the load-time band, the
\* DOM-content-loaded band and the page-size band (15 when the page size is
\* absent), the load band of 1999, 2000, 2999, 3000, 6999, 7000 ms is
\* 40, 30, 30, 20, 10, 0, and the result is between 0 and 100
C10_BandSum ==
    perf_out.kind = "ok" =>
        LET dcl == BandOf(perf_in.dom_content_loaded_ms, DclTable)
            size == IF perf_in.page_size_kb = NoSize THEN 15
                    ELSE BandOf(perf_in.page_size_kb, SizeTable)
        IN  /\ perf_out.v = BandOf(perf_in.load_time_ms, LoadTable) + dcl + size
            /\ \A e \in LoadExamples :
                  perf_in.load_time_ms = e[1] => perf_out.v = e[2] + dcl + size
            /\ 0 <= perf_out.v /\ perf_out.v <= 100

\* a load time on a threshold, the page size absent
C10_Witness ==
    /\ perf_out.kind = "ok"
    /\ perf_in.load_time_ms = 2000
    /\ perf_in.dom_content_loaded_ms = 999
    /\ perf_in.page_size_kb = NoSize
    /\ perf_out.v = 30 + 30 + 15

\* the rubric as the specification tabulates it
InRange(x, lo, hi) == lo <= x /\ x <= hi

RubricText(len, lo, hi, bonus) ==
    CASE len = NoText \/ len = 0 -> 0
      [] len > 0 /\ InRange(len, lo, hi) -> 10 + bonus
      [] OTHER -> 10

Rubric(p) ==
    [title            |-> RubricText(p.title, 30, 60, 10),
     meta_description |-> RubricText(p.meta_description, 120, 160, 5),
     h1_tags          |-> CASE p.h1_tags = 0 -> 0
                            [] p.h1_tags = 1 -> 15
                            [] OTHER -> 10,
     ctas             |-> CASE p.cta_texts = 0 -> 0
                            [] p.cta_texts = 1 -> 15
                            [] OTHER -> 25,
     forms            |-> IF p.has_forms THEN 15 ELSE 0,
     content          |-> IF p.content_length > 1800 THEN 10 ELSE 0]

\* C11: the breakdown calculate_cro_score returns is the rubric's: title
\* 0 / 10 / 20 with the bonus for a length of 30..60 (30 and 60 earn it, 29 and
\* 61 do not), meta description 0 / 10 / 15 with the bonus for 120..160, H1
\* 0 / 15 / 10 for none / one / several, CTAs 0 / 15 / 25 for none / one /
\* several, forms 15 iff present, content 10 iff longer than 1800 (1800 earns
\* nothing, 1801 earns it)
C11_ReferenceRubric ==
    cro_out.kind = "ok" =>
        LET b == cro_out.v.breakdown
        IN  /\ b = Rubric(cro_in)
            /\ cro_in.title \in {30, 60} => b.title = 20
            /\ cro_in.title \in {29, 61} => b.title = 10
            /\ cro_in.content_length = 1800 => b.content = 0
            /\ cro_in.content_length = 1801 => b.content = 10

\* every boundary at once: title of 30, meta description of 160, two H1 tags,
\* one CTA, no form, content of 1800
C11_Witness ==
    /\ cro_out.kind = "ok"
    /\ cro_in = Page(30, 160, 2, 1, FALSE, 1800)
    /\ cro_out.v.breakdown =
           [title |-> 20, meta_description |-> 15, h1_tags |-> 10,
            ctas |-> 15, forms |-> 0, content |-> 0]

----------------------------------------------------------------------------
(* properties of both endpoints *)

\* an outcome that has been reached stays as it is
Final(before, after) == IsDone(before) => after = before

\* C12: in a request each collaborator is called at most once per URL position
\* (and at most once for the URL of a standalone request), and an outcome of a
\* collaborator, a failure in particular, stays that URL's outcome: a URL whose
\* content fetch failed ends with that failure
C12_NoRetries ==
    [][/\ \A i \in DOMAIN calls' :
             /\ calls'[i].extract <= 1
             /\ calls'[i].measure <= 1
       /\ rcalls'.extract <= 1
       /\ rcalls'.measure <= 1
       /\ \A i \in DOMAIN content_data :
             /\ Final(content_data[i], content_data'[i])
             /\ Final(performance_data[i], performance_data'[i])
             /\ Final(results[i], results'[i])
             /\ calls'[i] = calls[i]
             /\ (IsException(content_data'[i]) /\ IsDone(results'[i]))
                    => results'[i] = content_data'[i]
       /\ Final(rcontent, rcontent')
       /\ Final(rperformance, rperformance')
       /\ (IsException(rcontent') /\ rpc' = "done") => rresponse' = rcontent'
      ]_vars

\* a compare request has finished in which one content fetch and one
\* measurement failed, each called once
C12_Witness ==
    /\ pc = "done"
    /\ CountValid
    /\ \E i \in DOMAIN urls :
          /\ IsException(content_data[i])
          /\ IsException(results[i])
          /\ calls[i].extract = 1
    /\ \E i \in DOMAIN urls :
          /\ IsException(performance_data[i])
          /\ calls[i].measure = 1

----------------------------------------------------------------------------
(* properties of the concurrency of compare_competitors *)

\* what a request answers, from the order of its URLs and what the
\* collaborators returned or raised for each
OutcomeOf(us, contents, performances) ==
    ComparisonAnalysis(
        us, [i \in DOMAIN us |-> AnalysisResult(us[i], contents[i], performances[i])])

\* C13: a count-valid request is answered only when every URL's content fetch,
\* measurement and analysis have reached an outcome, and the answer (results,
\* ranks, winners, insights with the failed URLs in input order, or the error)
\* is determined by the order of the URLs and each URL's fetch and measurement
\* outcome, whatever the order in which the tasks finished
C13_OrderIndependent ==
    (CountValid /\ response # Pending) =>
        /\ pc = "done"
        /\ \A i \in DOMAIN urls :
              /\ IsDone(content_data[i])
              /\ IsDone(performance_data[i])
              /\ IsDone(results[i])
        /\ Len(completion.order) = Len(urls)
        /\ response = OutcomeOf(urls, content_data, performance_data)

\* the analyses finished in the reverse of the input order, the first and the
\* third URL tie and are returned in input order, the second failed
C13_Witness ==
    /\ Returned
    /\ Len(urls) = 3
    /\ completion.order = <<3, 2, 1>>
    /\ Failed = {2}
    /\ [k \in DOMAIN response.results |-> response.results[k].url] = <<"u1", "u3">>
    /\ CombinedOf(response.results[1]) = CombinedOf(response.results[2])

----------------------------------------------------------------------------
(* winners and ranks *)

\* the ranks of the returned results whose quantity for a winner key is the
\* largest among the returned results
TiedAtMax(key) ==
    LET rs == response.results
        top == MaxOf({QuantityOf(rs[k], key) : k \in DOMAIN rs})
    IN  {k \in DOMAIN rs : QuantityOf(rs[k], key) = top}

\* C14: in a returned analysis the overall winner is the URL of the rank-1
\* result, and the winner of every key is, among the results tied at that key's
\* maximum, the one with the smallest rank
C14_WinnerByRank ==
    Returned =>
        /\ response.results[1].rank = 1
        /\ response.winner["overall"] = response.results[1].url
        /\ \A key \in WinnerKeys :
              LET best == MinOf(TiedAtMax(key))
              IN  /\ response.results[best].rank = best
                  /\ response.winner[key] = response.results[best].url

\* two results tie at the maximum of a key, the better ranked of them came
\* later in the request, and it is the winner of that key
C14_Witness ==
    /\ Returned
    /\ \E key \in WinnerKeys :
          \E k \in TiedAtMax(key) :
              /\ k = MinOf(TiedAtMax(key))
              /\ response.winner[key] = response.results[k].url
              /\ \E l \in TiedAtMax(key) :
                    /\ k < l
                    /\ PosOf(response.results[l].url) < PosOf(response.results[k].url)

====
